---- MODULE Spec2Model ----
(***************************************************************************)
(* Model of gzuuus/testing-relay (src/main.go): the start-up sequence of   *)
(* main, the RejectEvent admission hook and the handleRoot dispatcher.     *)
(*                                                                         *)
(* A Go string is a sequence of tokens.  A token is one character where    *)
(* the code works on characters (the Upgrade header, the digits of an      *)
(* environment value) and a whole literal where the code only compares,    *)
(* copies or prints the string.  The empty string is << >>.                *)
(***************************************************************************)
EXTENDS Integers, Sequences, FiniteSets, TLC

\* ---------------------------------------------------------------- bounds
\* Largest content length, tag count and kind of the events submitted.
MaxContentLen == 3
MaxTagCount == 2
MaxKind == 2

\* ------------------------------------------------------------ strings
Digits == <<"0", "1", "2", "3", "4", "5", "6", "7", "8", "9">>

IsDigit(c) == \E i \in 1..Len(Digits) : Digits[i] = c

DigitVal(c) == (CHOOSE i \in 1..Len(Digits) : Digits[i] = c) - 1

RECURSIVE ParseDigits(_, _)
ParseDigits(s, acc) ==
    IF s = << >> THEN acc
    ELSE ParseDigits(Tail(s), acc * 10 + DigitVal(Head(s)))

\* strconv.ParseInt on a decimal literal: an optional sign, then one or more
\* digits; anything else is a syntax error.
ParseInt(s) ==
    LET signed == s # << >> /\ Head(s) \in {"-", "+"}
        body == IF signed THEN Tail(s) ELSE s
        good == body # << >> /\ \A i \in 1..Len(body) : IsDigit(body[i])
    IN  IF ~good THEN [ok |-> FALSE, val |-> 0]
        ELSE [ok |-> TRUE,
              val |-> IF signed /\ Head(s) = "-" THEN 0 - ParseDigits(body, 0)
                      ELSE ParseDigits(body, 0)]

\* strconv.ParseBool.
ParseBool(s) ==
    IF s \in {<<"1">>, <<"t">>, <<"T">>, <<"true">>, <<"TRUE">>, <<"True">>}
    THEN [ok |-> TRUE, val |-> TRUE]
    ELSE IF s \in {<<"0">>, <<"f">>, <<"F">>, <<"false">>, <<"FALSE">>, <<"False">>}
    THEN [ok |-> TRUE, val |-> FALSE]
    ELSE [ok |-> FALSE, val |-> FALSE]

RECURSIVE SplitAcc(_, _, _)
SplitAcc(s, cur, out) ==
    IF s = << >> THEN Append(out, cur)
    ELSE IF Head(s) = "," THEN SplitAcc(Tail(s), << >>, Append(out, cur))
    ELSE SplitAcc(Tail(s), Append(cur, Head(s)), out)

\* strings.Split(s, ",").
Split(s) == SplitAcc(s, << >>, << >>)

RECURSIVE TrimLeft(_)
TrimLeft(s) == IF s # << >> /\ Head(s) = " " THEN TrimLeft(Tail(s)) ELSE s

RECURSIVE TrimRight(_)
TrimRight(s) ==
    IF s # << >> /\ s[Len(s)] = " " THEN TrimRight(SubSeq(s, 1, Len(s) - 1)) ELSE s

\* strings.TrimSpace.
TrimSpace(s) == TrimRight(TrimLeft(s))

UpperLetters == <<"A", "B", "C", "D", "E", "F", "G", "H", "I", "J", "K", "L", "M",
                  "N", "O", "P", "Q", "R", "S", "T", "U", "V", "W", "X", "Y", "Z">>

LowerLetters == <<"a", "b", "c", "d", "e", "f", "g", "h", "i", "j", "k", "l", "m",
                  "n", "o", "p", "q", "r", "s", "t", "u", "v", "w", "x", "y", "z">>

ToLowerChar(c) ==
    IF \E i \in 1..Len(UpperLetters) : UpperLetters[i] = c
    THEN LowerLetters[CHOOSE i \in 1..Len(UpperLetters) : UpperLetters[i] = c]
    ELSE c

\* strings.ToLower.
ToLower(s) == [i \in 1..Len(s) |-> ToLowerChar(s[i])]

\* The %d and %v verbs of fmt on an int and on a bool.
FmtInt(n) == <<ToString(n)>>

FmtBool(b) == IF b THEN <<"true">> ELSE <<"false">>

RECURSIVE FmtIntsFrom(_, _)
FmtIntsFrom(xs, i) ==
    IF i > Len(xs) THEN << >>
    ELSE (IF i > 1 THEN <<" ">> ELSE << >>) \o FmtInt(xs[i]) \o FmtIntsFrom(xs, i + 1)

\* The %v verb of fmt on a []int: "[1 30023]", and "[]" for an empty or nil one.
FmtInts(xs) == <<"[">> \o FmtIntsFrom(xs, 1) \o <<"]">>

\* --------------------------------------------------------------- slices
\* A Go slice: nil, or a (possibly empty) sequence.
NilSlice == [isNil |-> TRUE, v |-> << >>]

MakeSlice(xs) == [isNil |-> FALSE, v |-> xs]

contains(slice, item) == \E i \in 1..Len(slice.v) : slice.v[i] = item

\* ---------------------------------------------------------- environment
\* One environment variable: unset, or set to a string.
Unset == [set |-> FALSE, val |-> << >>]

SetTo(s) == [set |-> TRUE, val |-> s]

PortValues == {Unset, SetTo(<<"0">>), SetTo(<<"7", "0", "0", "0", "0">>), SetTo(<<"x">>)}

MaxContentLengthValues == {Unset, SetTo(<<"0">>), SetTo(<<"-", "1">>), SetTo(<<"2">>)}

MaxEventTagsValues == {Unset, SetTo(<<"0">>), SetTo(<<"1">>)}

AllowedKindsValues ==
    {Unset, SetTo(<< >>), SetTo(<<"1">>), SetTo(<<"0", ",", "2">>), SetTo(<<"1", ",", "x">>)}

WhitelistValues ==
    {Unset, SetTo(<<"abc">>), SetTo(<<"xyz">>), SetTo(<<"abc", ",", "xyz">>)}

DebugValues == {Unset, SetTo(<<"true">>)}

Environments ==
    [PORT : PortValues, MAX_CONTENT_LENGTH : MaxContentLengthValues,
     MAX_EVENT_TAGS : MaxEventTagsValues, ALLOWED_KINDS : AllowedKindsValues,
     WHITELIST_PUBKEYS : WhitelistValues, DEBUG : DebugValues,
     NAME : {Unset}, DESCRIPTION : {Unset}, PUBKEY : {Unset}]

\* ------------------------------------------------------- configuration
\* The zero value of RelayConfig.
ZeroConfig ==
    [Port |-> 0, Name |-> << >>, Description |-> << >>, PubKey |-> << >>,
     AllowedKinds |-> NilSlice, WhitelistPubkeys |-> NilSlice,
     MaxContentLength |-> 0, MaxEventTags |-> 0, Debug |-> FALSE]

\* envconfig's value of a field: the variable when set, else the tag's default;
\* skip is the field left at its zero value (unset, and no default).
Lookup(var, def) ==
    [skip |-> ~var.set /\ def = << >>,
     value |-> IF ~var.set /\ def # << >> THEN def ELSE var.val]

IntField(var, def) ==
    LET l == Lookup(var, def)
    IN  IF l.skip THEN [ok |-> TRUE, val |-> 0] ELSE ParseInt(l.value)

BoolField(var, def) ==
    LET l == Lookup(var, def)
    IN  IF l.skip THEN [ok |-> TRUE, val |-> FALSE] ELSE ParseBool(l.value)

StringField(var, def) ==
    LET l == Lookup(var, def)
    IN  IF l.skip THEN [ok |-> TRUE, val |-> << >>] ELSE [ok |-> TRUE, val |-> l.value]

\* A []string field: an empty slice for a blank value, else the comma-separated
\* parts.
StringsField(var, def) ==
    LET l == Lookup(var, def)
    IN  IF l.skip THEN [ok |-> TRUE, val |-> NilSlice]
        ELSE IF Len(TrimSpace(l.value)) = 0 THEN [ok |-> TRUE, val |-> MakeSlice(<< >>)]
        ELSE [ok |-> TRUE, val |-> MakeSlice(Split(l.value))]

\* A []int field: each comma-separated part goes through ParseInt.
IntsField(var, def) ==
    LET l == Lookup(var, def)
        parts == Split(l.value)
    IN  IF l.skip THEN [ok |-> TRUE, val |-> NilSlice]
        ELSE IF Len(TrimSpace(l.value)) = 0 THEN [ok |-> TRUE, val |-> MakeSlice(<< >>)]
        ELSE [ok |-> \A i \in 1..Len(parts) : ParseInt(parts[i]).ok,
              val |-> MakeSlice([i \in 1..Len(parts) |-> ParseInt(parts[i]).val])]

\* envconfig.Process("RELAY", &cfg) with the tags of RelayConfig.
Process(e) ==
    LET port == IntField(e.PORT, <<"3", "3", "3", "4">>)
        name == StringField(e.NAME, <<"Debug Khatru Relay">>)
        desc == StringField(e.DESCRIPTION,
                            <<"A configurable Nostr relay for debugging and testing">>)
        pubkey == StringField(e.PUBKEY, << >>)
        kinds == IntsField(e.ALLOWED_KINDS, << >>)
        wl == StringsField(e.WHITELIST_PUBKEYS, << >>)
        maxLen == IntField(e.MAX_CONTENT_LENGTH, <<"2", "5", "0", "0", "0", "0">>)
        maxTags == IntField(e.MAX_EVENT_TAGS, <<"2", "0", "0", "0">>)
        debug == BoolField(e.DEBUG, <<"false">>)
    IN  [ok |-> port.ok /\ kinds.ok /\ wl.ok /\ maxLen.ok /\ maxTags.ok /\ debug.ok,
         cfg |-> [Port |-> port.val, Name |-> name.val, Description |-> desc.val,
                  PubKey |-> pubkey.val, AllowedKinds |-> kinds.val,
                  WhitelistPubkeys |-> wl.val, MaxContentLength |-> maxLen.val,
                  MaxEventTags |-> maxTags.val, Debug |-> debug.val]]

\* ----------------------------------------------------------------- state
VARIABLES
    pc,         \* where the process is: "init", "main", "configured", "ready",
                \* "serving", "exited"
    dotenv,     \* whether a .env file is in the working directory
    env,        \* the process environment
    cfg,        \* the RelayConfig of main
    call        \* the hook or handler call being served, with its result

vars == <<pc, dotenv, env, cfg, call>>

NoCall == [op |-> "none"]

Init ==
    /\ pc = "init"
    /\ dotenv \in BOOLEAN
    /\ env \in Environments
    /\ cfg = ZeroConfig
    /\ call = NoCall

\* init(): a missing .env file is fatal.
LoadDotenv ==
    /\ pc = "init"
    /\ pc' = IF dotenv THEN "main" ELSE "exited"
    /\ UNCHANGED <<dotenv, env, cfg, call>>

\* main, to the end of configuration loading: an envconfig error is fatal.
LoadConfig ==
    /\ pc = "main"
    /\ LET r == Process(env)
       IN  IF r.ok THEN pc' = "configured" /\ cfg' = r.cfg
           ELSE pc' = "exited" /\ cfg' = cfg
    /\ UNCHANGED <<dotenv, env, call>>

\* main, db.Init(): on an error main returns.
InitDB ==
    /\ pc = "configured"
    /\ \E dbOk \in BOOLEAN : pc' = IF dbOk THEN "ready" ELSE "exited"
    /\ UNCHANGED <<dotenv, env, cfg, call>>

\* main, hooks registered and server.ListenAndServe() on ":<Port>": a port
\* outside 0..65535 cannot be listened on, port 0 is a port the system picks,
\* and listening on a valid port may still fail.
ListenAndServe ==
    /\ pc = "ready"
    /\ \E bound \in BOOLEAN :
         pc' = IF bound /\ cfg.Port \in 0..65535 THEN "serving" ELSE "exited"
    /\ UNCHANGED <<dotenv, env, cfg, call>>

\* ---------------------------------------------------------------- events
\* A nostr.Event, as far as the hooks read it.
PubKeys == {<<"abc">>, <<"xyz">>, <<"def">>}

ContentOfLen(n) == [i \in 1..n |-> "a"]

TagsOfCount(n) == [i \in 1..n |-> <<"t", "v">>]

Events ==
    {[PubKey |-> p, Kind |-> k, Content |-> ContentOfLen(n), Tags |-> TagsOfCount(t)] :
        p \in PubKeys, k \in 0..MaxKind, n \in 0..MaxContentLen, t \in 0..MaxTagCount}

\* The reasons of the RejectEvent hook.
ContentReason(c) == <<"blocked: content length exceeds maximum of ">> \o FmtInt(c.MaxContentLength)

TagsReason(c) == <<"blocked: number of tags exceeds maximum of ">> \o FmtInt(c.MaxEventTags)

KindReason(c, event) ==
    <<"blocked: event kind ">> \o FmtInt(event.Kind)
        \o <<" not allowed, allowed kinds: ">> \o FmtInts(c.AllowedKinds.v)

WhitelistReason == <<"blocked: pubkey not in whitelist">>

\* RejectEvent with the content comparison off by one (>= for >).
RejectEvent_ContentGeq(c, event) ==
    IF c.MaxContentLength > 0 /\ Len(event.Content) >= c.MaxContentLength
    THEN [reject |-> TRUE, msg |-> ContentReason(c)]
    ELSE IF c.MaxEventTags > 0 /\ Len(event.Tags) > c.MaxEventTags
    THEN [reject |-> TRUE, msg |-> TagsReason(c)]
    ELSE IF Len(c.AllowedKinds.v) > 0 /\ ~contains(c.AllowedKinds, event.Kind)
    THEN [reject |-> TRUE, msg |-> KindReason(c, event)]
    ELSE IF Len(c.WhitelistPubkeys.v) > 0 /\ ~contains(c.WhitelistPubkeys, event.PubKey)
    THEN [reject |-> TRUE, msg |-> WhitelistReason]
    ELSE [reject |-> FALSE, msg |-> << >>]

\* RejectEvent with the tag check moved before the content check.
RejectEvent_TagsFirst(c, event) ==
    IF c.MaxEventTags > 0 /\ Len(event.Tags) > c.MaxEventTags
    THEN [reject |-> TRUE, msg |-> TagsReason(c)]
    ELSE IF c.MaxContentLength > 0 /\ Len(event.Content) > c.MaxContentLength
    THEN [reject |-> TRUE, msg |-> ContentReason(c)]
    ELSE IF Len(c.AllowedKinds.v) > 0 /\ ~contains(c.AllowedKinds, event.Kind)
    THEN [reject |-> TRUE, msg |-> KindReason(c, event)]
    ELSE IF Len(c.WhitelistPubkeys.v) > 0 /\ ~contains(c.WhitelistPubkeys, event.PubKey)
    THEN [reject |-> TRUE, msg |-> WhitelistReason]
    ELSE [reject |-> FALSE, msg |-> << >>]

\* RejectEvent without the "> 0" guard of the content limit.
RejectEvent_NoZeroGuard(c, event) ==
    IF Len(event.Content) > c.MaxContentLength
    THEN [reject |-> TRUE, msg |-> ContentReason(c)]
    ELSE IF c.MaxEventTags > 0 /\ Len(event.Tags) > c.MaxEventTags
    THEN [reject |-> TRUE, msg |-> TagsReason(c)]
    ELSE IF Len(c.AllowedKinds.v) > 0 /\ ~contains(c.AllowedKinds, event.Kind)
    THEN [reject |-> TRUE, msg |-> KindReason(c, event)]
    ELSE IF Len(c.WhitelistPubkeys.v) > 0 /\ ~contains(c.WhitelistPubkeys, event.PubKey)
    THEN [reject |-> TRUE, msg |-> WhitelistReason]
    ELSE [reject |-> FALSE, msg |-> << >>]

\* RejectEvent naming the rejected pubkey in the whitelist reason.
RejectEvent_NamesPubkey(c, event) ==
    IF c.MaxContentLength > 0 /\ Len(event.Content) > c.MaxContentLength
    THEN [reject |-> TRUE, msg |-> ContentReason(c)]
    ELSE IF c.MaxEventTags > 0 /\ Len(event.Tags) > c.MaxEventTags
    THEN [reject |-> TRUE, msg |-> TagsReason(c)]
    ELSE IF Len(c.AllowedKinds.v) > 0 /\ ~contains(c.AllowedKinds, event.Kind)
    THEN [reject |-> TRUE, msg |-> KindReason(c, event)]
    ELSE IF Len(c.WhitelistPubkeys.v) > 0 /\ ~contains(c.WhitelistPubkeys, event.PubKey)
    THEN [reject |-> TRUE, msg |-> <<"blocked: pubkey ">> \o event.PubKey \o <<" not in whitelist">>]
    ELSE [reject |-> FALSE, msg |-> << >>]

\* The function main appends to relay.RejectEvent; c is the cfg it closes over.
RejectEvent(c, event) ==
    IF c.MaxContentLength > 0 /\ Len(event.Content) > c.MaxContentLength
    THEN [reject |-> TRUE, msg |-> ContentReason(c)]
    ELSE IF c.MaxEventTags > 0 /\ Len(event.Tags) > c.MaxEventTags
    THEN [reject |-> TRUE, msg |-> TagsReason(c)]
    ELSE IF Len(c.AllowedKinds.v) > 0 /\ ~contains(c.AllowedKinds, event.Kind)
    THEN [reject |-> TRUE, msg |-> KindReason(c, event)]
    ELSE IF Len(c.WhitelistPubkeys.v) > 0 /\ ~contains(c.WhitelistPubkeys, event.PubKey)
    THEN [reject |-> TRUE, msg |-> WhitelistReason]
    ELSE [reject |-> FALSE, msg |-> << >>]

\* -------------------------------------------------------------- requests
Websocket == <<"w", "e", "b", "s", "o", "c", "k", "e", "t">>

UpgradeHeaders ==
    {<< >>,
     <<Websocket>>,
     <<(<<"W", "e", "b", "S", "o", "c", "k", "e", "t">>)>>,
     <<(<<"W", "E", "B", "S", "O", "C", "K", "E", "T">>)>>,
     <<Websocket \o <<" ">> >>,
     <<Websocket \o <<",", " ", "f", "o", "o">> >>,
     <<(<<"h", "2", "c">>)>>}

AcceptHeaders ==
    {<< >>,
     <<(<<"application/json">>)>>,
     <<(<<"text/html">>)>>,
     <<(<<"application/json", ",", "text/html">>)>>}

\* An http.Request: each header is the list of its values, empty when absent.
Requests ==
    [Header : [Upgrade : UpgradeHeaders, Accept : AcceptHeaders], Host : {<<"localhost">>}]

\* http.Header.Get: the first value of the header, "" when it is absent.
Get(h, key) == IF h[key] = << >> THEN << >> ELSE h[key][1]

\* encoding/json of a []int: null for a nil slice, else an array.
JsonInts(slice) ==
    IF slice.isNil THEN [t |-> "null", v |-> << >>] ELSE [t |-> "array", v |-> slice.v]

\* CapabilityDocument with the two size limits swapped.
CapabilityDocument_SwappedLimits(c) ==
    [name |-> c.Name, description |-> c.Description, pubkey |-> c.PubKey,
     config |-> [allowed_kinds |-> JsonInts(c.AllowedKinds),
                 whitelist_enabled |-> Len(c.WhitelistPubkeys.v) > 0,
                 max_content_length |-> c.MaxEventTags,
                 max_event_tags |-> c.MaxContentLength,
                 debug_enabled |-> c.Debug]]

\* CapabilityDocument listing the whitelisted pubkeys as well.
CapabilityDocument_ListsWhitelist(c) ==
    [name |-> c.Name, description |-> c.Description, pubkey |-> c.PubKey,
     config |-> [allowed_kinds |-> JsonInts(c.AllowedKinds),
                 whitelist_enabled |-> Len(c.WhitelistPubkeys.v) > 0,
                 whitelisted_pubkeys |-> c.WhitelistPubkeys.v,
                 max_content_length |-> c.MaxContentLength,
                 max_event_tags |-> c.MaxEventTags,
                 debug_enabled |-> c.Debug]]

\* The object handleRoot encodes for Accept: application/json.
CapabilityDocument(c) ==
    [name |-> c.Name, description |-> c.Description, pubkey |-> c.PubKey,
     config |-> [allowed_kinds |-> JsonInts(c.AllowedKinds),
                 whitelist_enabled |-> Len(c.WhitelistPubkeys.v) > 0,
                 max_content_length |-> c.MaxContentLength,
                 max_event_tags |-> c.MaxEventTags,
                 debug_enabled |-> c.Debug]]

\* The page handleRoot prints otherwise: the template with its ten arguments.
StatusPage(c, r) ==
    <<"<html><head><title>">> \o c.Name \o <<"</title></head><body><h1>">> \o c.Name
        \o <<"</h1><p>">> \o c.Description
        \o <<"</p><h2>Relay Configuration</h2><pre>Allowed Event Kinds: ">>
        \o FmtInts(c.AllowedKinds.v)
        \o <<"Whitelist Enabled: ">> \o FmtBool(Len(c.WhitelistPubkeys.v) > 0)
        \o <<"Max Content Length: ">> \o FmtInt(c.MaxContentLength) \o <<" bytes">>
        \o <<"Max Event Tags: ">> \o FmtInt(c.MaxEventTags)
        \o <<"Debug Enabled: ">> \o FmtBool(c.Debug)
        \o <<"</pre><h2>Connection Information</h2><code>ws://">> \o r.Host \o <<":">>
        \o FmtInt(c.Port) \o <<"/</code></body></html>">>

\* handleRoot comparing the Upgrade header without lower-casing it.
handleRoot_CaseSensitive(c, r) ==
    IF Get(r.Header, "Upgrade") = Websocket
    THEN [route |-> "StreamingHandoff", contentType |-> << >>, json |-> << >>, text |-> << >>]
    ELSE IF Get(r.Header, "Accept") = <<"application/json">>
    THEN [route |-> "CapabilityDocument", contentType |-> <<"application/json">>,
          json |-> <<CapabilityDocument(c)>>, text |-> << >>]
    ELSE [route |-> "StatusPage", contentType |-> <<"text/html">>,
          json |-> << >>, text |-> StatusPage(c, r)]

\* handleRoot handing over every request that has an Upgrade header.
handleRoot_AnyUpgrade(c, r) ==
    IF Get(r.Header, "Upgrade") # << >>
    THEN [route |-> "StreamingHandoff", contentType |-> << >>, json |-> << >>, text |-> << >>]
    ELSE IF Get(r.Header, "Accept") = <<"application/json">>
    THEN [route |-> "CapabilityDocument", contentType |-> <<"application/json">>,
          json |-> <<CapabilityDocument(c)>>, text |-> << >>]
    ELSE [route |-> "StatusPage", contentType |-> <<"text/html">>,
          json |-> << >>, text |-> StatusPage(c, r)]

\* What the handler of handleRoot(relay, cfg) does with request r: the branch it
\* takes and what it writes itself (nothing when it hands over to the relay).
handleRoot(c, r) ==
    IF ToLower(Get(r.Header, "Upgrade")) = Websocket
    THEN [route |-> "StreamingHandoff", contentType |-> << >>, json |-> << >>, text |-> << >>]
    ELSE IF Get(r.Header, "Accept") = <<"application/json">>
    THEN [route |-> "CapabilityDocument", contentType |-> <<"application/json">>,
          json |-> <<CapabilityDocument(c)>>, text |-> << >>]
    ELSE [route |-> "StatusPage", contentType |-> <<"text/html">>,
          json |-> << >>, text |-> StatusPage(c, r)]

\* The relay engine calls the RejectEvent hook on an event a client sent.
CallRejectEvent ==
    /\ pc = "serving"
    /\ call = NoCall
    /\ \E event \in Events :
         call' = [op |-> "RejectEvent", event |-> event,
                  reject |-> RejectEvent(cfg, event).reject,
                  msg |-> RejectEvent(cfg, event).msg]
    /\ UNCHANGED <<pc, dotenv, env, cfg>>

\* The server calls the handler mounted on "/" with a request.
ServeRoot ==
    /\ pc = "serving"
    /\ call = NoCall
    /\ \E r \in Requests :
         call' = [op |-> "handleRoot", req |-> r, resp |-> handleRoot(cfg, r)]
    /\ UNCHANGED <<pc, dotenv, env, cfg>>

\* The hook or handler returns to its caller, which goes on to the next call.
Return ==
    /\ pc = "serving"
    /\ call # NoCall
    /\ call' = NoCall
    /\ UNCHANGED <<pc, dotenv, env, cfg>>

Next ==
    \/ LoadDotenv
    \/ LoadConfig
    \/ InitDB
    \/ ListenAndServe
    \/ CallRejectEvent
    \/ ServeRoot
    \/ Return

Spec == Init /\ [][Next]_vars

\* ------------------------------------------------------------ properties
Range(xs) == {xs[i] : i \in 1..Len(xs)}

\* The four limits, as section 3 of the specification reads the configuration.
ContentWithin(c, e) == c.MaxContentLength > 0 => Len(e.Content) <= c.MaxContentLength

TagsWithin(c, e) == c.MaxEventTags > 0 => Len(e.Tags) <= c.MaxEventTags

KindAllowed(c, e) == Range(c.AllowedKinds.v) # {} => e.Kind \in Range(c.AllowedKinds.v)

AuthorAllowed(c, e) ==
    Range(c.WhitelistPubkeys.v) # {} => e.PubKey \in Range(c.WhitelistPubkeys.v)

\* The first rule, in the order 1 content, 2 tags, 3 kind, 4 whitelist, that
\* event e violates under configuration c; 0 when it violates none.
FirstViolated(c, e) ==
    IF ~ContentWithin(c, e) THEN 1
    ELSE IF ~TagsWithin(c, e) THEN 2
    ELSE IF ~KindAllowed(c, e) THEN 3
    ELSE IF ~AuthorAllowed(c, e) THEN 4
    ELSE 0

\* The rule a reason belongs to, by the text it opens with; 0 for no reason.
RuleOfReason(msg) ==
    IF msg = << >> THEN 0
    ELSE IF Head(msg) = "blocked: content length exceeds maximum of " THEN 1
    ELSE IF Head(msg) = "blocked: number of tags exceeds maximum of " THEN 2
    ELSE IF Head(msg) = "blocked: event kind " THEN 3
    ELSE IF Head(msg) = "blocked: pubkey not in whitelist" THEN 4
    ELSE 5

AllLimitsActive(c) ==
    /\ c.MaxContentLength > 0
    /\ c.MaxEventTags > 0
    /\ Len(c.AllowedKinds.v) > 0
    /\ Len(c.WhitelistPubkeys.v) > 0

NoLimitActive(c) ==
    /\ c.MaxContentLength = 0
    /\ c.MaxEventTags = 0
    /\ Len(c.AllowedKinds.v) = 0
    /\ Len(c.WhitelistPubkeys.v) = 0

Judged == pc = "serving" /\ call.op = "RejectEvent"

Routed == pc = "serving" /\ call.op = "handleRoot"

\* C1: an event that satisfies every active limit is accepted, with the empty
\* reason.
C1_AcceptsWithinLimits ==
    (Judged /\ FirstViolated(cfg, call.event) = 0)
        => (call.reject = FALSE /\ call.msg = << >>)

\* All four limits are active and an event of kind 0 with empty content and no
\* tags, from a whitelisted author, was accepted.
C1_Witness ==
    /\ Judged
    /\ AllLimitsActive(cfg)
    /\ call.event.Kind = 0
    /\ call.event.Content = << >>
    /\ call.event.Tags = << >>
    /\ FirstViolated(cfg, call.event) = 0
    /\ call.reject = FALSE

\* C2: an event that violates a rule is rejected with the reason of the first
\* rule it violates, whatever later rules it violates too.
C2_FirstViolatedRuleWins ==
    (Judged /\ FirstViolated(cfg, call.event) # 0)
        => /\ call.reject = TRUE
           /\ RuleOfReason(call.msg) = FirstViolated(cfg, call.event)
           /\ call.msg = CASE FirstViolated(cfg, call.event) = 1 -> ContentReason(cfg)
                           [] FirstViolated(cfg, call.event) = 2 -> TagsReason(cfg)
                           [] FirstViolated(cfg, call.event) = 3 -> KindReason(cfg, call.event)
                           [] OTHER -> WhitelistReason

\* An event that violates all four rules at once got the content-length reason.
C2_Witness ==
    /\ Judged
    /\ ~ContentWithin(cfg, call.event)
    /\ ~TagsWithin(cfg, call.event)
    /\ ~KindAllowed(cfg, call.event)
    /\ ~AuthorAllowed(cfg, call.event)
    /\ call.reject = TRUE
    /\ RuleOfReason(call.msg) = 1

\* C3: a limit at its unrestricted value never causes a rejection, and with all
\* four unrestricted every event is accepted.
C3_UnrestrictedNeverRejects ==
    Judged
        => /\ cfg.MaxContentLength = 0 => RuleOfReason(call.msg) # 1
           /\ cfg.MaxEventTags = 0 => RuleOfReason(call.msg) # 2
           /\ Len(cfg.AllowedKinds.v) = 0 => RuleOfReason(call.msg) # 3
           /\ Len(cfg.WhitelistPubkeys.v) = 0 => RuleOfReason(call.msg) # 4
           /\ NoLimitActive(cfg) => (call.reject = FALSE /\ call.msg = << >>)

\* With all four limits unrestricted, the largest event was accepted.
C3_Witness ==
    /\ Judged
    /\ NoLimitActive(cfg)
    /\ Len(call.event.Content) = MaxContentLen
    /\ Len(call.event.Tags) = MaxTagCount
    /\ call.reject = FALSE

\* The configurations that differ from c in nothing but the members of a
\* non-empty whitelist.
OtherWhitelists(c) ==
    {[c EXCEPT !.WhitelistPubkeys = MakeSlice(w)] :
        w \in {<<p>> : p \in PubKeys} \cup {<<p, q>> : p \in PubKeys, q \in PubKeys}}

\* C4: the reason of a whitelist rejection is one constant string: the same in
\* every configuration, and the same as for any other rejected pubkey under any
\* other whitelist.
C4_WhitelistReasonConstant ==
    (Judged /\ FirstViolated(cfg, call.event) = 4)
        => /\ call.msg = <<"blocked: pubkey not in whitelist">>
           /\ \A c2 \in OtherWhitelists(cfg), p \in PubKeys :
                LET e2 == [call.event EXCEPT !.PubKey = p]
                IN  FirstViolated(c2, e2) = 4 => RejectEvent(c2, e2).msg = call.msg

\* An event was rejected by the whitelist rule of a two-member whitelist.
C4_Witness ==
    /\ Judged
    /\ Len(cfg.WhitelistPubkeys.v) = 2
    /\ FirstViolated(cfg, call.event) = 4
    /\ call.reject = TRUE

\* The upper-case letter of a lower-case one.
UpperOf(ch) ==
    IF \E i \in 1..Len(LowerLetters) : LowerLetters[i] = ch
    THEN UpperLetters[CHOOSE i \in 1..Len(LowerLetters) : LowerLetters[i] = ch]
    ELSE ch

\* s is "websocket" in some letter case.
WebsocketAnyCase(s) ==
    /\ Len(s) = Len(Websocket)
    /\ \A i \in 1..Len(Websocket) : s[i] \in {Websocket[i], UpperOf(Websocket[i])}

UpgradeOf(r) == Get(r.Header, "Upgrade")

AcceptsJson(r) == Get(r.Header, "Accept") = <<"application/json">>

WroteNothing(resp) == resp.contentType = << >> /\ resp.json = << >> /\ resp.text = << >>

\* C5: each request takes exactly one branch: StreamingHandoff, with nothing
\* written, when Upgrade is "websocket" in any letter case, whatever Accept is;
\* else CapabilityDocument when Accept is application/json; else StatusPage.
C5_RouteIsTotal ==
    Routed
        => /\ call.resp.route \in {"StreamingHandoff", "CapabilityDocument", "StatusPage"}
           /\ WebsocketAnyCase(UpgradeOf(call.req))
                => (call.resp.route = "StreamingHandoff" /\ WroteNothing(call.resp))
           /\ (~WebsocketAnyCase(UpgradeOf(call.req)) /\ AcceptsJson(call.req))
                => (call.resp.route = "CapabilityDocument" /\ Len(call.resp.json) = 1)
           /\ (~WebsocketAnyCase(UpgradeOf(call.req)) /\ ~AcceptsJson(call.req))
                => (call.resp.route = "StatusPage" /\ call.resp.text # << >>)

\* A request with Upgrade: WebSocket and Accept: application/json was handed
\* over.
C5_Witness ==
    /\ Routed
    /\ UpgradeOf(call.req) # Websocket
    /\ WebsocketAnyCase(UpgradeOf(call.req))
    /\ AcceptsJson(call.req)
    /\ call.resp.route = "StreamingHandoff"

\* C6, as claimed: every request that carries an Upgrade header is handed over.
C6_AnyUpgradeHandedOver ==
    (Routed /\ call.req.Header.Upgrade # << >>) => call.resp.route = "StreamingHandoff"

\* C6, amended: a request whose Upgrade header is not "websocket" in some letter
\* case is not handed over; its Accept header alone picks CapabilityDocument or
\* StatusPage.
C6_OtherUpgradeNotHandedOver ==
    (Routed /\ call.req.Header.Upgrade # << >> /\ ~WebsocketAnyCase(UpgradeOf(call.req)))
        => /\ call.resp.route # "StreamingHandoff"
           /\ call.resp.route = "CapabilityDocument" <=> AcceptsJson(call.req)

\* A request with Upgrade: "websocket, foo" got the StatusPage.
C6_Witness ==
    /\ Routed
    /\ Len(UpgradeOf(call.req)) > Len(Websocket)
    /\ SubSeq(UpgradeOf(call.req), 1, Len(Websocket) + 1) = Websocket \o <<",">>
    /\ call.resp.route = "StatusPage"

\* The kinds a capability document lists (none for null).
ListedKinds(doc) == Range(doc.config.allowed_kinds.v)

\* An event of an allowed kind, by a whitelisted author when there is one, of
\* the given content length and tag count.
Probe(kind, pubkey, n, t) ==
    [PubKey |-> pubkey, Kind |-> kind, Content |-> ContentOfLen(n), Tags |-> TagsOfCount(t)]

FreeKind(c) == IF Len(c.AllowedKinds.v) = 0 THEN 0 ELSE c.AllowedKinds.v[1]

\* C7: the capability document agrees with what the admission policy does
\* under the configuration: its limits are the ones rules 1 and 2 reject by,
\* allowed_kinds the kinds rule 3 lets through, whitelist_enabled whether rule 4
\* rejects anyone.
C7_DocumentMatchesPolicy ==
    (Routed /\ call.resp.route = "CapabilityDocument")
        => LET doc == call.resp.json[1].config
           IN  /\ ListedKinds(call.resp.json[1]) = Range(cfg.AllowedKinds.v)
               /\ doc.max_content_length = cfg.MaxContentLength
               /\ doc.max_event_tags = cfg.MaxEventTags
               /\ doc.whitelist_enabled = (Len(cfg.WhitelistPubkeys.v) > 0)
               /\ \A n \in 0..MaxContentLen :
                    (RuleOfReason(RejectEvent(cfg, Probe(0, <<"def">>, n, 0)).msg) = 1)
                        <=> (doc.max_content_length > 0 /\ n > doc.max_content_length)
               /\ \A t \in 0..MaxTagCount :
                    (RuleOfReason(RejectEvent(cfg, Probe(0, <<"def">>, 0, t)).msg) = 2)
                        <=> (doc.max_event_tags > 0 /\ t > doc.max_event_tags)
               /\ \A k \in 0..MaxKind :
                    (RuleOfReason(RejectEvent(cfg, Probe(k, <<"def">>, 0, 0)).msg) = 3)
                        <=> (ListedKinds(call.resp.json[1]) # {}
                                /\ k \notin ListedKinds(call.resp.json[1]))
               /\ doc.whitelist_enabled
                    <=> \E p \in PubKeys :
                          RuleOfReason(RejectEvent(cfg, Probe(FreeKind(cfg), p, 0, 0)).msg) = 4

\* A capability document was produced while all four limits were active.
C7_Witness ==
    /\ Routed
    /\ call.resp.route = "CapabilityDocument"
    /\ AllLimitsActive(cfg)
    /\ cfg.MaxContentLength # cfg.MaxEventTags

\* C8: the response to a request is the same under every other non-empty
\* whitelist: only whether there is a whitelist shows.
C8_WhitelistMembersHidden ==
    (Routed /\ Len(cfg.WhitelistPubkeys.v) > 0)
        => \A c2 \in OtherWhitelists(cfg) : handleRoot(c2, call.req) = call.resp

\* Under a two-member whitelist a capability document was produced.
C8_Witness ==
    /\ Routed
    /\ Len(cfg.WhitelistPubkeys.v) = 2
    /\ call.resp.route = "CapabilityDocument"
    /\ call.resp.json[1].config.whitelist_enabled = TRUE

\* C10, as claimed: the process serves only with a configuration that loaded
\* and that satisfies the data model's invariants.
C10_ServesOnlyValidConfig ==
    pc = "serving"
        => /\ dotenv
           /\ Process(env).ok
           /\ cfg = Process(env).cfg
           /\ cfg.Port \in 1..65535
           /\ cfg.MaxContentLength >= 0
           /\ cfg.MaxEventTags >= 0
====
